---- MODULE Spec2Model ----
(***************************************************************************)
(* Configuration resolution of the briefcase command line tool.            *)
(*                                                                         *)
(* The model follows one invocation of main() (src/briefcase/__main__.py): *)
(* parse_cmdline builds a command (BaseCommand.__init__), parse_config     *)
(* loads the project file and builds one AppConfig per application         *)
(* (BaseCommand.parse_config), the command body runs, and the process      *)
(* exits.  A BriefcaseError raised on the way is printed and turned into   *)
(* the exit code.                                                          *)
(*                                                                         *)
(* Python values are records [type, val]; a dict is a function whose       *)
(* domain is its key set; a message is the sequence of the pieces that     *)
(* str.format and str.join put one after the other.                        *)
(***************************************************************************)
EXTENDS Integers, Sequences, FiniteSets, TLC

VARIABLES
    pc,              \* position in main(): "try", "except", "exit", "exited"
    state,           \* lifecycle state of the command
    parser_actions,  \* parser._actions: option dest -> declared default
    default_options, \* self.default_options
    options,         \* self.options: option dest -> parsed value
    config_options,  \* self.config_options of the command class
    file_exists,     \* whether open(filename) finds the file
    app_configs,     \* output of config.parse_config: app name -> dict
    pending,         \* app names the for loop has not visited yet
    apps_defined,    \* whether the attribute self.apps has been assigned
    apps,            \* self.apps: app name -> AppConfig
    app_name,        \* loop variable app_name (NoApp before the loop)
    app_config,      \* loop local app_config: the merged mapping
    error,           \* the exception propagating out of the try block
    stdout,          \* messages printed to sys.stdout
    stderr,          \* messages printed to sys.stderr
    result           \* local variable result of main(): <<>> while unbound

vars == <<pc, state, parser_actions, default_options, options, config_options,
          file_exists, app_configs, pending, apps_defined, apps, app_name,
          app_config, error, stdout, stderr, result>>

---------------------------------------------------------------------------
(* Bounds of the model *)

\* Number of applications the project file may describe.
MaxApps == 2

\* Application names, in the order the parser inserts them in its dict.
AllApps == <<"alpha", "beta", "gamma", "delta">>

AppNames == {AllApps[i] : i \in 1..MaxApps}

\* Options a command declares on its parser (add_options).
OptionNames == {"template", "version"}

\* Key sets the project file may give for an application: any choice of
\* name, version and template, and one that also has the key "self".
FileKeySets ==
    (SUBSET {"name", "version", "template"}) \cup {{"self", "name", "version"}}

\* Lexicographic order of every name that can occur as a field name.
NameOrder == <<"description", "name", "template", "version">>

---------------------------------------------------------------------------
(* Python values *)

None == [type |-> "NoneType", val |-> "None"]

False == [type |-> "bool", val |-> "False"]

Zero == [type |-> "int", val |-> "0"]

Str(s) == [type |-> "str", val |-> s]

\* Defaults an option may be declared with (None: declared without one).
DeclaredDefaults == {None, False, Zero, Str(""), Str("dflt")}

\* The value an option takes when the user passes it on the command line.
CliValue == Str("cli")

\* The value the project file gives to a key of application a.
FileValue(a) == Str(a)

TruthyNotNone(v) == v.type # "NoneType"

\* bool(v) as Python evaluates `if action.default`.
Truthy(v) ==
    CASE v.type = "NoneType" -> FALSE
      [] v.type = "bool" -> v.val = "True"
      [] v.type = "int" -> v.val # "0"
      [] v.type = "str" -> v.val # ""

\* dict.update: the keys of e replace or extend those of d.
Update(d, e) ==
    [k \in DOMAIN d \cup DOMAIN e |-> IF k \in DOMAIN e THEN e[k] ELSE d[k]]

EmptyDict == [k \in {} |-> None]

Rank(s) == CHOOSE i \in 1..Len(NameOrder) : NameOrder[i] = s

IsSorted(seq) ==
    \A i \in 1..Len(seq), j \in 1..Len(seq) : i < j => Rank(seq[i]) < Rank(seq[j])

\* The elements of a sequence.
Range(seq) == {seq[i] : i \in 1..Len(seq)}

\* Every order in which iterating the set S can yield its elements.
IterationOrders(S) ==
    {q \in [1..Cardinality(S) -> S] : Range(q) = S}

---------------------------------------------------------------------------
(* Collaborators: exceptions, AppConfig, argparse *)

\* error_code of BriefcaseConfigError.
ConfigErrorCode == 100

\* error_code values of the BriefcaseErrors parse_cmdline can raise:
\* informational ones (0) and real ones.
CmdlineErrorCodes == {0, 1}

NoError == [type |-> "", error_code |-> 0, msg |-> <<>>]

BriefcaseError(code, msg) ==
    [type |-> "BriefcaseError", error_code |-> code, msg |-> msg]

BriefcaseConfigError(msg) ==
    [type |-> "BriefcaseConfigError", error_code |-> ConfigErrorCode, msg |-> msg]

\* Parameters of AppConfig.__init__ as inspect.signature lists them;
\* has_default is FALSE where param.default is inspect._empty.
AppConfigSignature ==
    << [name |-> "self", has_default |-> FALSE],
       [name |-> "name", has_default |-> FALSE],
       [name |-> "version", has_default |-> FALSE],
       [name |-> "description", has_default |-> TRUE],
       [name |-> "kwargs", has_default |-> FALSE] >>

\* AppConfig(**kwargs) raises TypeError when a parameter without default
\* gets no argument, and when a key collides with the receiver ("got
\* multiple values for argument 'self'"); further keys are taken by the
\* variadic parameter.
AppConfigRaisesTypeError(kwargs) ==
    \/ "self" \in DOMAIN kwargs
    \/ \E i \in 1..Len(AppConfigSignature) :
        /\ AppConfigSignature[i].name \notin {"self", "kwargs"}
        /\ ~AppConfigSignature[i].has_default
        /\ AppConfigSignature[i].name \notin DOMAIN kwargs

\* The constructed record: the arguments it was built from.
AppConfig(kwargs) == kwargs

\* parser.parse_args(extra): an option passed in extra takes the passed
\* value, any other option its declared default.
ParseArgs(actions, supplied) ==
    [o \in DOMAIN actions |-> IF o \in supplied THEN CliValue ELSE actions[o]]

---------------------------------------------------------------------------
(* BaseCommand.__init__ *)

DefaultOptionsNotNone(actions) ==
    {o \in DOMAIN actions : TruthyNotNone(actions[o])}

DefaultOptions(actions) ==
    {o \in DOMAIN actions : Truthy(actions[o])}

---------------------------------------------------------------------------
(* BaseCommand.parse_config: the merge of one application *)

DefaultLayerAllOptions(cfgopts, dflts, opts) ==
    [o \in dflts |-> opts[o]]

\* Step 1: the config options that have default values.
DefaultLayer(cfgopts, dflts, opts) ==
    [o \in cfgopts \cap dflts |-> opts[o]]

\* Step 3: the config options without default value.
ExplicitLayer(cfgopts, dflts, opts) ==
    [o \in cfgopts \ dflts |-> opts[o]]

MergedConfigFileLast(cfgopts, dflts, opts, parsed_config) ==
    Update(Update(DefaultLayer(cfgopts, dflts, opts),
                  ExplicitLayer(cfgopts, dflts, opts)),
           parsed_config)

\* app_config after the two update calls.
MergedConfig(cfgopts, dflts, opts, parsed_config) ==
    Update(Update(DefaultLayer(cfgopts, dflts, opts), parsed_config),
           ExplicitLayer(cfgopts, dflts, opts))

\* required_args: parameters without default other than self and kwargs.
RequiredArgs ==
    {AppConfigSignature[i].name : i \in
        {j \in 1..Len(AppConfigSignature) :
            /\ ~AppConfigSignature[j].has_default
            /\ AppConfigSignature[j].name \notin {"self", "kwargs"}}}

MissingArgsFirstOnly(cfg) ==
    LET m == RequiredArgs \ DOMAIN cfg
    IN  IF m = {} THEN {} ELSE {CHOOSE a \in m : \A b \in m : Rank(a) <= Rank(b)}

\* missing_args = required_args - app_config.keys()
MissingArgs(cfg) == RequiredArgs \ DOMAIN cfg

RECURSIVE JoinQuoted(_)
\* ', '.join("'{arg}'".format(arg=arg) for arg in order)
JoinQuoted(order) ==
    IF Len(order) = 0 THEN <<>>
    ELSE IF Len(order) = 1 THEN <<"'", order[1], "'">>
    ELSE <<"'", order[1], "'", ", ">> \o JoinQuoted(Tail(order))

\* "Configuration for '{app_name}' is incomplete (missing {missing})"
IncompleteMessage(a, order) ==
    <<"Configuration for '", a, "' is incomplete (missing ">>
        \o JoinQuoted(order) \o <<")">>

FileNotFoundMessageOther == <<"configuration file could not be parsed">>

FileNotFoundMessage == <<"configuration file not found">>

StoreAppEverywhere(m, a, cfg) ==
    [n \in DOMAIN m \cup {a} |-> AppConfig(cfg)]

\* self.apps[app_name] = AppConfig(**app_config)
StoreApp(m, a, cfg) ==
    [n \in DOMAIN m \cup {a} |-> IF n = a THEN AppConfig(cfg) ELSE m[n]]

\* What the except TypeError clause does to the loop: it raises.
OnTypeErrorContinue == "Resolving"

OnTypeError == "ConfigFailed"

---------------------------------------------------------------------------
(* main *)

StreamSwapped(code) == IF code = 0 THEN "stderr" ELSE "stdout"

\* file=sys.stdout if e.error_code == 0 else sys.stderr
Stream(code) == IF code = 0 THEN "stdout" ELSE "stderr"

---------------------------------------------------------------------------
(* The state machine *)

\* The per-application dicts the file parser can return for application a.
RawAppConfigs(a) ==
    {[k \in keys |-> FileValue(a)] : keys \in FileKeySets}

\* The names of a parser output describing n applications, in the
\* insertion order that app_configs.items() follows.
ItemsOrder(n) == SubSeq(AllApps, 1, n)

NoApp == ""

Init ==
    /\ pc = "try"
    /\ state = "Created"
    /\ parser_actions = EmptyDict
    /\ default_options = {}
    /\ options = EmptyDict
    /\ config_options = {}
    /\ file_exists \in BOOLEAN
    /\ app_configs = EmptyDict
    /\ pending = <<>>
    /\ apps_defined = FALSE
    /\ apps = EmptyDict
    /\ app_name = NoApp
    /\ app_config = EmptyDict
    /\ error = NoError
    /\ stdout = <<>>
    /\ stderr = <<>>
    /\ result = <<>>

\* parse_cmdline(sys.argv[1:]) builds the command: add_options declares the
\* options, default_options is taken from the declarations, then the
\* arguments are parsed.  The command class fixes config_options.
ParseCmdline ==
    /\ pc = "try"
    /\ state = "Created"
    /\ \E actions \in [OptionNames -> DeclaredDefaults],
          supplied \in SUBSET OptionNames,
          cfgopts \in SUBSET OptionNames :
            /\ parser_actions' = actions
            /\ default_options' = DefaultOptions(actions)
            /\ options' = ParseArgs(actions, supplied)
            /\ config_options' = cfgopts
    /\ state' = "OptionsParsed"
    /\ UNCHANGED <<pc, file_exists, app_configs, pending, apps_defined, apps,
                   app_name, app_config, error, stdout, stderr, result>>

\* parse_cmdline raises a BriefcaseError (help text, unknown command, ...).
ParseCmdlineError ==
    /\ pc = "try"
    /\ state = "Created"
    /\ \E code \in CmdlineErrorCodes : error' = BriefcaseError(code, <<"usage">>)
    /\ state' = "CmdlineFailed"
    /\ pc' = "except"
    /\ UNCHANGED <<parser_actions, default_options, options, config_options,
                   file_exists, app_configs, pending, apps_defined, apps,
                   app_name, app_config, stdout, stderr, result>>

\* open(filename) raises FileNotFoundError; the except clause turns it
\* into a BriefcaseConfigError.
OpenConfigNotFound ==
    /\ pc = "try"
    /\ state = "OptionsParsed"
    /\ ~file_exists
    /\ error' = BriefcaseConfigError(FileNotFoundMessage)
    /\ state' = "ConfigFailed"
    /\ pc' = "except"
    /\ UNCHANGED <<parser_actions, default_options, options, config_options,
                   file_exists, app_configs, pending, apps_defined, apps,
                   app_name, app_config, stdout, stderr, result>>

\* The file is opened and parsed, self.apps = {} and the loop starts.
LoadConfig ==
    /\ pc = "try"
    /\ state = "OptionsParsed"
    /\ file_exists
    /\ \E n \in 0..MaxApps :
        \E parsed \in [Range(ItemsOrder(n)) -> UNION {RawAppConfigs(a) : a \in AppNames}] :
            /\ \A a \in DOMAIN parsed : parsed[a] \in RawAppConfigs(a)
            /\ app_configs' = parsed
            /\ pending' = ItemsOrder(n)
    /\ apps' = EmptyDict
    /\ apps_defined' = TRUE
    /\ state' = "Resolving"
    /\ UNCHANGED <<pc, parser_actions, default_options, options, config_options,
                   file_exists, app_name, app_config, error, stdout, stderr,
                   result>>

\* One iteration of the loop in which AppConfig is constructed.
ResolveApp ==
    /\ pc = "try"
    /\ state = "Resolving"
    /\ pending # <<>>
    /\ LET a == Head(pending)
           cfg == MergedConfig(config_options, default_options, options,
                               app_configs[a])
       IN  /\ ~AppConfigRaisesTypeError(cfg)
           /\ app_name' = a
           /\ app_config' = cfg
           /\ apps' = StoreApp(apps, a, cfg)
    /\ pending' = Tail(pending)
    /\ UNCHANGED <<pc, state, parser_actions, default_options, options,
                   config_options, file_exists, app_configs, apps_defined,
                   error, stdout, stderr, result>>

\* One iteration of the loop in which AppConfig raises TypeError: the
\* missing arguments are listed in the iteration order of a set.
ResolveAppIncomplete ==
    /\ pc = "try"
    /\ state = "Resolving"
    /\ pending # <<>>
    /\ LET a == Head(pending)
           cfg == MergedConfig(config_options, default_options, options,
                               app_configs[a])
       IN  /\ AppConfigRaisesTypeError(cfg)
           /\ app_name' = a
           /\ app_config' = cfg
           /\ \E order \in IterationOrders(MissingArgs(cfg)) :
                error' = BriefcaseConfigError(IncompleteMessage(a, order))
    /\ pending' = Tail(pending)
    /\ state' = OnTypeError
    /\ pc' = IF state' = "ConfigFailed" THEN "except" ELSE "try"
    /\ UNCHANGED <<parser_actions, default_options, options, config_options,
                   file_exists, app_configs, apps_defined, apps, stdout,
                   stderr, result>>

\* The loop ends and parse_config returns.
FinishParseConfig ==
    /\ pc = "try"
    /\ state = "Resolving"
    /\ pending = <<>>
    /\ state' = "ConfigResolved"
    /\ UNCHANGED <<pc, parser_actions, default_options, options, config_options,
                   file_exists, app_configs, pending, apps_defined, apps,
                   app_name, app_config, error, stdout, stderr, result>>

\* command() runs and result = 0.
CallCommand ==
    /\ pc = "try"
    /\ state = "ConfigResolved"
    /\ state' = "Executed"
    /\ result' = <<0>>
    /\ pc' = "exit"
    /\ UNCHANGED <<parser_actions, default_options, options, config_options,
                   file_exists, app_configs, pending, apps_defined, apps,
                   app_name, app_config, error, stdout, stderr>>

\* except BriefcaseError as e: print the message, keep the error code.
ExceptBriefcaseError ==
    /\ pc = "except"
    /\ IF Stream(error.error_code) = "stdout"
       THEN stdout' = Append(stdout, error.msg) /\ UNCHANGED stderr
       ELSE stderr' = Append(stderr, error.msg) /\ UNCHANGED stdout
    /\ result' = <<error.error_code>>
    /\ pc' = "exit"
    /\ UNCHANGED <<state, parser_actions, default_options, options,
                   config_options, file_exists, app_configs, pending,
                   apps_defined, apps, app_name, app_config, error>>

\* sys.exit(result)
SysExit ==
    /\ pc = "exit"
    /\ pc' = "exited"
    /\ UNCHANGED <<state, parser_actions, default_options, options,
                   config_options, file_exists, app_configs, pending,
                   apps_defined, apps, app_name, app_config, error, stdout,
                   stderr, result>>

Next ==
    \/ ParseCmdline
    \/ ParseCmdlineError
    \/ OpenConfigNotFound
    \/ LoadConfig
    \/ ResolveApp
    \/ ResolveAppIncomplete
    \/ FinishParseConfig
    \/ CallCommand
    \/ ExceptBriefcaseError
    \/ SysExit

Spec == Init /\ [][Next]_vars

---------------------------------------------------------------------------
(* Properties *)

\* The "Configuration for '<app>' is incomplete" error.
IsIncompleteError(e) ==
    /\ e.type = "BriefcaseConfigError"
    /\ Len(e.msg) > 0
    /\ e.msg[1] = "Configuration for '"

IsFieldName(p) == p \in Range(NameOrder)

\* The field names a message names, in the order it names them.
FieldsNamed(msg) == SelectSeq(msg, IsFieldName)

\* The file configuration of the application the loop is at.
ParsedConfig == app_configs[app_name]

\* C1: for every application and every config option o, the value passed to
\* AppConfig is the command-line value when o has no default (even when the
\* file has a key o), the file value when o has a default and the file has
\* a key o, and the command-line value when o has a default and the file
\* has no key o.
C1_Precedence ==
    app_name # NoApp =>
        \A o \in config_options :
            /\ o \in DOMAIN app_config
            /\ o \notin default_options => app_config[o] = options[o]
            /\ (o \in default_options /\ o \in DOMAIN ParsedConfig)
                    => app_config[o] = ParsedConfig[o]
            /\ (o \in default_options /\ o \notin DOMAIN ParsedConfig)
                    => app_config[o] = options[o]

C1_Witness ==
    /\ app_name # NoApp
    /\ \E o \in config_options \ default_options :
        o \in DOMAIN ParsedConfig /\ ParsedConfig[o] # options[o]
    /\ \E o \in config_options \cap default_options :
        o \in DOMAIN ParsedConfig /\ ParsedConfig[o] # options[o]

\* C2: the incomplete-configuration error names the application and names
\* exactly the required AppConfig fields that are absent from the merged
\* mapping: all of them, and none that is present.
C2_AllMissingNamed ==
    IsIncompleteError(error) =>
        /\ error.msg[2] = app_name
        /\ Range(FieldsNamed(error.msg)) = {"name", "version"} \ DOMAIN app_config

C2_Witness ==
    /\ IsIncompleteError(error)
    /\ state = "ConfigFailed"
    /\ Cardinality({"name", "version"} \ DOMAIN app_config) = 2

\* C3: the missing field names of the incomplete-configuration message are
\* in sorted order.
C3_MissingSorted ==
    IsIncompleteError(error) => IsSorted(FieldsNamed(error.msg))

\* C4: a failed application ends the lifecycle in ConfigFailed with that
\* application's error, no later application is resolved, nothing changes
\* the application map afterwards and the command body never runs; the
\* command body runs only when every application has its AppConfig.
C4_FailedInv ==
    /\ (state = "ConfigFailed" /\ app_name # NoApp) =>
            /\ IsIncompleteError(error)
            /\ error.msg[2] = app_name
            /\ app_name \notin DOMAIN apps
            /\ \A a \in Range(pending) : a \notin DOMAIN apps
    /\ error # NoError => state \in {"ConfigFailed", "CmdlineFailed"}
    /\ state = "Executed" =>
            /\ apps_defined
            /\ DOMAIN apps = DOMAIN app_configs
            /\ error = NoError

C4_FailedStep ==
    state = "ConfigFailed" =>
        /\ state' = "ConfigFailed"
        /\ apps' = apps
        /\ pending' = pending
        /\ error' = error

C4_FirstFailureAborts == [] C4_FailedInv /\ [][C4_FailedStep]_vars

C4_Witness ==
    /\ pc = "exited"
    /\ state = "ConfigFailed"
    /\ app_name # NoApp
    /\ pending # <<>>

\* C5: without a configuration file the lifecycle ends in ConfigFailed with
\* the 'configuration file not found' error, and no application is
\* resolved: the application map is never created and the body never runs.
C5_FileNotFound ==
    (~file_exists /\ state \notin {"Created", "OptionsParsed", "CmdlineFailed"}) =>
        /\ state = "ConfigFailed"
        /\ error.type = "BriefcaseConfigError"
        /\ error.msg = <<"configuration file not found">>
        /\ ~apps_defined
        /\ apps = EmptyDict
        /\ app_name = NoApp

C5_Witness ==
    /\ ~file_exists
    /\ pc = "exited"
    /\ state = "ConfigFailed"

\* C6: when parse_config completes, the keys of self.apps are the
\* application names of the parser output, and each AppConfig is built from
\* that application's own merged mapping.
C6_OneAppConfigEach ==
    state \in {"ConfigResolved", "Executed"} =>
        /\ DOMAIN apps = DOMAIN app_configs
        /\ \A a \in DOMAIN apps :
            /\ apps[a] = MergedConfig(config_options, default_options, options,
                                      app_configs[a])
            /\ \A k \in DOMAIN apps[a] \ config_options :
                k \in DOMAIN app_configs[a] /\ apps[a][k] = FileValue(a)

C6_Witness ==
    /\ state = "ConfigResolved"
    /\ Cardinality(DOMAIN apps) >= 2
    /\ \E a, b \in DOMAIN apps : DOMAIN apps[a] # DOMAIN apps[b]

\* C7: an option is default-bearing exactly when its declared default is
\* neither absent nor empty, zero or false, whatever the command line gave.
C7_TruthyDefault ==
    state \notin {"Created", "CmdlineFailed"} =>
        \A o \in OptionNames :
            o \in default_options <=>
                parser_actions[o] \notin {None, False, Zero, Str("")}

C7_Witness ==
    /\ state = "OptionsParsed"
    /\ \E o \in OptionNames :
        /\ parser_actions[o] = Zero
        /\ options[o] = CliValue
        /\ o \notin default_options
    /\ \E o \in OptionNames :
        /\ parser_actions[o] = Str("dflt")
        /\ options[o] = CliValue
        /\ o \in default_options

\* C8: a run without error exits 0; an error with code 0 is printed to
\* standard output and the exit code is 0; an error with another code is
\* printed to the error stream and the exit code is that code; every
\* BriefcaseConfigError has a non-zero code.
C8_ExitAndStream ==
    /\ error.type = "BriefcaseConfigError" => error.error_code # 0
    /\ pc = "exited" =>
        /\ error = NoError =>
            result = <<0>> /\ stdout = <<>> /\ stderr = <<>>
        /\ (error # NoError /\ error.error_code = 0) =>
            result = <<0>> /\ stdout = <<error.msg>> /\ stderr = <<>>
        /\ (error # NoError /\ error.error_code # 0) =>
            result = <<error.error_code>> /\ stderr = <<error.msg>> /\ stdout = <<>>

C8_Witness ==
    /\ pc = "exited"
    /\ error.type = "BriefcaseConfigError"
    /\ stderr = <<error.msg>>
    /\ result = <<100>>

\* C9: the keys of the merged mapping are the config options together with
\* the keys of the application's file configuration, and a file key that is
\* no config option keeps its file value.
C9_MergedKeys ==
    app_name # NoApp =>
        /\ DOMAIN app_config = config_options \cup DOMAIN ParsedConfig
        /\ \A k \in DOMAIN ParsedConfig \ config_options :
            app_config[k] = ParsedConfig[k]

C9_Witness ==
    /\ app_name # NoApp
    /\ \E o \in (OptionNames \cap default_options) \ config_options :
        o \notin DOMAIN ParsedConfig
    /\ \E k \in DOMAIN ParsedConfig : k \notin config_options
    /\ config_options # {}

\* C10: the incomplete-configuration error is raised only when a required
\* AppConfig field is absent from the merged mapping, and the list of
\* missing fields it reports is never empty.  (The except clause takes
\* every TypeError of the constructor: a file key "self" raises one with no
\* field missing.)
C10_MissingNonEmpty ==
    IsIncompleteError(error) =>
        /\ FieldsNamed(error.msg) # <<>>
        /\ \E f \in {"name", "version"} :
            f \notin DOMAIN app_config /\ f \in Range(FieldsNamed(error.msg))

====
